---------------------------- MODULE Spec2Model ----------------------------
(***************************************************************************)
(* Media routes of the wedding backend (src/routes/media.js) together with *)
(* the application-level error middleware (src/unnamed/part_001).          *)
(*                                                                         *)
(* State: the Firestore collection 'media' (docs), the storage bucket      *)
(* (blobs), the server clock (now, which advances with every arriving      *)
(* request), the uuid source (nextId) and one                              *)
(* record per HTTP request (reqs) holding the handler's local variables,   *)
(* its position (pc) and its response.                                     *)
(*                                                                         *)
(* Every action is the code of one handler between two awaits: the store   *)
(* call that the await waits for takes effect, and the synchronous code    *)
(* after it runs up to the next store call.  bucket and sharp calls may    *)
(* fail (the handlers catch them); so may the set() of the upload.  The    *)
(* get(), delete() and update() of an existing document are taken to       *)
(* succeed; update() of a missing document rejects (Firestore NOT_FOUND).  *)
(*                                                                         *)
(* Optional values are sequences of length 0 or 1.                         *)
(***************************************************************************)
EXTENDS Integers, Sequences, FiniteSets, TLC

\* Bounds of the model.
MaxReq == 3
MaxId == 2

Slots == 1..MaxReq
Ids == 1..MaxId

VARIABLES docs, blobs, now, nextId, reqs

vars == <<docs, blobs, now, nextId, reqs>>

----------------------------------------------------------------------------
\* Inputs

\* req.file as multer passes it: mimetype is <<type, subtype>>, originalname
\* is its '.'-separated parts.
PhotoFile == [mimetype |-> <<"image", "png">>, originalname |-> <<"pic", "png">>, size |-> 10]
VideoFile == [mimetype |-> <<"video", "mp4">>, originalname |-> <<"clip", "mp4">>, size |-> 20]
TextFile == [mimetype |-> <<"text", "plain">>, originalname |-> <<"notes", "txt">>, size |-> 5]
Files == {PhotoFile, VideoFile, TextFile}

\* title: "" is an absent (falsy) title.  date: <<>> is an absent date.
UploadFields == {[title |-> "", date |-> <<>>], [title |-> "t1", date |-> <<"d1">>]}
PutTitles == {"", "t2"}
PutDates == {<<>>, <<"d2">>}
LikeActions == {"like", "unlike"}

----------------------------------------------------------------------------
\* Pure helpers

Last(s) == s[Len(s)]

\* file.mimetype.startsWith('image/') || file.mimetype.startsWith('video/')
FileFilter(file) == file.mimetype[1] = "image" \/ file.mimetype[1] = "video"

\* file.mimetype.startsWith('video/') ? 'video' : 'photo'
MediaType(file) == IF file.mimetype[1] = "video" THEN "video" ELSE "photo"

\* file.originalname.split('.').pop()
FileExtension(file) == Last(file.originalname)

\* `${fileId}.${fileExtension}`
FileName(fileId, file) == [id |-> fileId, ext |-> FileExtension(file)]

\* `media/${fileName}` and `thumbnails/${fileId}.jpg`
MediaPath(name) == <<"media", name>>
ThumbnailPath(name) == <<"thumbnails", name>>

\* getSignedUrl: the object's path followed by the signing query.
SignedUrl(path) == [path |-> path, query |-> "signed"]

\* url.split('/').pop().split('?')[0]
UrlFileName(url) == Last(url.path)

\* new Date().toISOString()
IsoString(t) == <<"iso", t>>

\* title || `Untitled ${mediaType}`
TitleOrDefault(title, mediaType) ==
  IF title # "" THEN title
  ELSE IF mediaType = "video" THEN "Untitled video" ELSE "Untitled photo"

\* date || new Date().toISOString()
DateOrNow(date, t) == IF date # <<>> THEN date ELSE IsoString(t)

\* mediaData of the upload handler
MediaData(fileId, file, url, thumbnailUrl, title, date, t) ==
  [ id |-> fileId,
    type |-> MediaType(file),
    url |-> url,
    thumbnail |-> thumbnailUrl,
    title |-> TitleOrDefault(title, MediaType(file)),
    date |-> DateOrNow(date, t),
    likes |-> 0,
    createdAt |-> t,
    updatedAt |-> t,
    originalName |-> file.originalname,
    fileSize |-> file.size,
    mimeType |-> file.mimetype ]

\* res.status(s).json({success, data})
Response(status, success, data) ==
  <<[status |-> status, success |-> success, data |-> data]>>

----------------------------------------------------------------------------
\* Requests

\* One record per request: the request's inputs (kind, id, title, date,
\* action, file), the handler's locals (buffer, url, thumbnail, snap,
\* newLikes, at) and position (pc), and its response (resp).  log records
\* the catches and blob deletions the handler went through, afterDelete
\* whether the request arrived after a successful DELETE of its id had
\* been answered.
IdleReq ==
  [ kind |-> "idle", pc |-> "idle", id |-> 0,
    title |-> "", date |-> <<>>, action |-> "",
    file |-> <<>>, buffer |-> "", url |-> <<>>, thumbnail |-> <<>>,
    snap |-> <<>>, newLikes |-> 0, at |-> 0,
    log |-> {}, afterDelete |-> FALSE, resp |-> <<>> ]

Done(r) == reqs[r].pc = "done"
InFlight(r) == reqs[r].pc \notin {"idle", "done"}
Quiet == \A r \in Slots : ~InFlight(r)

\* Requests are numbered in the order they arrive.
CanStart(r) ==
  /\ reqs[r].kind = "idle"
  /\ \A q \in Slots : q < r => reqs[q].kind # "idle"

\* The handler returns: its locals are gone, the request, what it went
\* through (log) and its response stay on record.
Respond(r, rec, response) ==
  reqs' = [reqs EXCEPT ![r] =
    [rec EXCEPT !.pc = "done", !.resp = response, !.buffer = "", !.url = <<>>,
                !.thumbnail = <<>>, !.snap = <<>>, !.at = 0]]

Exists(id) == id \in DOMAIN docs

\* doc(id).get(): the snapshot, empty when the document does not exist
DocGet(id) == IF Exists(id) THEN <<docs[id]>> ELSE <<>>

\* doc(id).set(data)
DocSet(id, data) == [x \in DOMAIN docs \cup {id} |-> IF x = id THEN data ELSE docs[x]]

\* doc(id).delete()
DocDelete(id) == [x \in DOMAIN docs \ {id} |-> docs[x]]

\* The collection and the bucket outlive the server process.  The initial
\* store is the one a completed upload of PhotoFile (with its thumbnail) has
\* left.
InitialDoc ==
  MediaData(1, PhotoFile, SignedUrl(MediaPath(FileName(1, PhotoFile))),
            SignedUrl(ThumbnailPath([id |-> 1, ext |-> "jpg"])),
            "t1", <<"d1">>, 0)

InitialBlobs ==
  [k \in {MediaPath(FileName(1, PhotoFile)),
          ThumbnailPath([id |-> 1, ext |-> "jpg"])} |->
     IF k = MediaPath(FileName(1, PhotoFile)) THEN "resized" ELSE "thumbnail"]

Init ==
  /\ docs = [x \in {1} |-> InitialDoc]
  /\ blobs = InitialBlobs
  /\ now = 0
  /\ nextId = 2
  /\ reqs = [r \in Slots |-> IdleReq]

----------------------------------------------------------------------------
\* POST /upload

\* app.use((err, req, res, next) => res.status(500)...): where multer's
\* next(err) for a file the fileFilter refuses ends up.
ErrorMiddleware == Response(500, FALSE, <<>>)

\* The handler's code from `let thumbnailUrl = url` (or from the catch of the
\* thumbnail stage) to the issue of set(): mediaData is built here.
ToSet(rec, thumbnailUrl) ==
  [rec EXCEPT !.thumbnail = thumbnailUrl,
              !.snap = <<MediaData(rec.id, rec.file[1], rec.url, thumbnailUrl,
                                   rec.title, rec.date, now)>>,
              !.pc = "set"]

\* multer (fileFilter), the !req.file check and the synchronous head of the
\* handler.  uuidv4() is a fresh id.
UploadStart(r) ==
  /\ CanStart(r)
  /\ \E fileOpt \in {<<>>} \cup {<<f>> : f \in Files}, body \in UploadFields :
       LET rec == [IdleReq EXCEPT !.kind = "upload", !.file = fileOpt,
                                  !.title = body.title, !.date = body.date]
       IN  IF fileOpt # <<>> /\ ~FileFilter(fileOpt[1])
             THEN /\ Respond(r, rec, ErrorMiddleware)
                  /\ UNCHANGED nextId
           ELSE IF fileOpt = <<>>
             THEN /\ Respond(r, rec, Response(400, FALSE, <<>>))
                  /\ UNCHANGED nextId
           ELSE /\ nextId <= MaxId
                /\ nextId' = nextId + 1
                /\ reqs' = [reqs EXCEPT ![r] =
                     [rec EXCEPT !.id = nextId, !.buffer = "original",
                                 !.pc = IF MediaType(fileOpt[1]) = "photo"
                                          THEN "resize" ELSE "write"]]
  /\ now' = now + 1
  /\ UNCHANGED <<docs, blobs>>

\* sharp(...).resize(1200, 1200).jpeg().toBuffer(), with its catch
UploadResize(r) ==
  /\ reqs[r].pc = "resize"
  /\ \E ok \in BOOLEAN :
       reqs' = [reqs EXCEPT ![r].pc = "write",
                            ![r].buffer = IF ok THEN "resized" ELSE "original"]
  /\ UNCHANGED <<docs, blobs, now, nextId>>

\* stream.end(processedBuffer): 'finish' or 'error'
UploadWrite(r) ==
  /\ reqs[r].pc = "write"
  /\ LET rec == reqs[r]
         key == MediaPath(FileName(rec.id, rec.file[1]))
     IN  \E ok \in BOOLEAN :
           IF ok
             THEN /\ blobs' = [k \in DOMAIN blobs \cup {key} |->
                                 IF k = key THEN rec.buffer ELSE blobs[k]]
                  /\ reqs' = [reqs EXCEPT ![r].pc = "sign"]
             ELSE /\ Respond(r, rec, Response(500, FALSE, <<>>))
                  /\ UNCHANGED blobs
  /\ UNCHANGED <<docs, now, nextId>>

\* fileUpload.getSignedUrl(...), then `let thumbnailUrl = url`
UploadSign(r) ==
  /\ reqs[r].pc = "sign"
  /\ LET rec == reqs[r]
         url == SignedUrl(MediaPath(FileName(rec.id, rec.file[1])))
     IN  \E ok \in BOOLEAN :
           IF ~ok THEN Respond(r, rec, Response(500, FALSE, <<>>))
           ELSE IF MediaType(rec.file[1]) = "photo"
             THEN reqs' = [reqs EXCEPT ![r] =
                    [rec EXCEPT !.url = url, !.thumbnail = url, !.pc = "thumb"]]
           ELSE reqs' = [reqs EXCEPT ![r] = ToSet([rec EXCEPT !.url = url], url)]
  /\ UNCHANGED <<docs, blobs, now, nextId>>

\* Mutant: no catch around the thumbnail stage, its failure reaches the
\* handler's outer catch.
ThumbnailCatch_Abort(r, stage) ==
  /\ Respond(r, [reqs[r] EXCEPT !.log = @ \cup {stage}], Response(500, FALSE, <<>>))
  /\ UNCHANGED blobs

\* catch (error) { console.log('Thumbnail creation failed') }: thumbnailUrl
\* keeps the value url and the handler goes on to mediaData.
ThumbnailCatch(r, stage) ==
  /\ reqs' = [reqs EXCEPT ![r] =
       ToSet([reqs[r] EXCEPT !.log = @ \cup {stage}], reqs[r].url)]
  /\ UNCHANGED blobs

\* sharp(file.buffer).resize(300, 300).jpeg().toBuffer()
UploadThumb(r) ==
  /\ reqs[r].pc = "thumb"
  /\ \E ok \in BOOLEAN :
       IF ok THEN /\ reqs' = [reqs EXCEPT ![r].pc = "thumbwrite"]
                  /\ UNCHANGED blobs
       ELSE ThumbnailCatch(r, "thumbnail_transform_failed")
  /\ UNCHANGED <<docs, now, nextId>>

\* thumbnailStream.end(thumbnailBuffer)
UploadThumbWrite(r) ==
  /\ reqs[r].pc = "thumbwrite"
  /\ LET key == ThumbnailPath([id |-> reqs[r].id, ext |-> "jpg"])
     IN  \E ok \in BOOLEAN :
           IF ok
             THEN /\ blobs' = [k \in DOMAIN blobs \cup {key} |->
                                 IF k = key THEN "thumbnail" ELSE blobs[k]]
                  /\ reqs' = [reqs EXCEPT ![r].pc = "thumbsign"]
             ELSE ThumbnailCatch(r, "thumbnail_write_failed")
  /\ UNCHANGED <<docs, now, nextId>>

\* thumbnailUpload.getSignedUrl(...); thumbnailUrl = thumbnailUrlResult
UploadThumbSign(r) ==
  /\ reqs[r].pc = "thumbsign"
  /\ LET key == ThumbnailPath([id |-> reqs[r].id, ext |-> "jpg"])
     IN  \E ok \in BOOLEAN :
           IF ok THEN /\ reqs' = [reqs EXCEPT ![r] = ToSet(reqs[r], SignedUrl(key))]
                      /\ UNCHANGED blobs
           ELSE ThumbnailCatch(r, "thumbnail_sign_failed")
  /\ UNCHANGED <<docs, now, nextId>>

\* db.collection('media').doc(fileId).set(mediaData); res.status(201)
UploadSet(r) ==
  /\ reqs[r].pc = "set"
  /\ LET rec == reqs[r]
     IN  \E ok \in BOOLEAN :
           IF ok
             THEN /\ docs' = DocSet(rec.id, rec.snap[1])
                  /\ Respond(r, rec, Response(201, TRUE, rec.snap))
             ELSE /\ Respond(r, [rec EXCEPT !.log = @ \cup {"set_failed"}],
                             Response(500, FALSE, <<>>))
                  /\ UNCHANGED docs
  /\ UNCHANGED <<blobs, now, nextId>>

----------------------------------------------------------------------------
\* GET /:id

\* if (!doc.exists) 404 else { success: true, data: { id, ...doc.data() } }
GetResponse(id, doc) ==
  IF doc = <<>> THEN Response(404, FALSE, <<>>)
  ELSE Response(200, TRUE, <<[id |-> id, doc |-> doc]>>)

\* Some DELETE of this id has already answered with success.
DeleteAcked(id) ==
  \E q \in Slots : /\ reqs[q].kind = "delete" /\ reqs[q].id = id /\ Done(q)
                   /\ reqs[q].resp[1].status = 200

GetStart(r) ==
  /\ CanStart(r)
  /\ \E id \in Ids :
       reqs' = [reqs EXCEPT ![r] =
         [IdleReq EXCEPT !.kind = "get", !.id = id, !.pc = "get_read",
                         !.afterDelete = DeleteAcked(id)]]
  /\ now' = now + 1
  /\ UNCHANGED <<docs, blobs, nextId>>

GetRead(r) ==
  /\ reqs[r].pc = "get_read"
  /\ Respond(r, reqs[r], GetResponse(reqs[r].id, DocGet(reqs[r].id)))
  /\ UNCHANGED <<docs, blobs, now, nextId>>

----------------------------------------------------------------------------
\* PUT /:id

\* Mutant: date is copied into updateData whether or not it was supplied.
UpdateData_AlwaysDate(title, date, t) ==
  [f \in {"updatedAt", "date"} \cup (IF title # "" THEN {"title"} ELSE {}) |->
     CASE f = "updatedAt" -> t
       [] f = "title" -> title
       [] f = "date" -> date]

\* updateData: { updatedAt: new Date() }, plus title and date when truthy
UpdateData(title, date, t) ==
  [f \in {"updatedAt"} \cup (IF title # "" THEN {"title"} ELSE {})
                       \cup (IF date # <<>> THEN {"date"} ELSE {}) |->
     CASE f = "updatedAt" -> t
       [] f = "title" -> title
       [] f = "date" -> date]

\* doc(id).update(fields) on an existing document: the named fields replaced
Merge(doc, fields) ==
  [f \in DOMAIN doc |-> IF f \in DOMAIN fields THEN fields[f] ELSE doc[f]]

PutStart(r) ==
  /\ CanStart(r)
  /\ \E id \in Ids, title \in PutTitles, date \in PutDates :
       reqs' = [reqs EXCEPT ![r] =
         [IdleReq EXCEPT !.kind = "put", !.id = id, !.title = title,
                         !.date = date, !.at = now, !.pc = "put_update"]]
  /\ now' = now + 1
  /\ UNCHANGED <<docs, blobs, nextId>>

\* update(updateData): rejects when the document does not exist, and the
\* handler's catch answers 500.
PutUpdate(r) ==
  /\ reqs[r].pc = "put_update"
  /\ LET rec == reqs[r]
     IN  IF Exists(rec.id)
           THEN /\ docs' = DocSet(rec.id,
                      Merge(docs[rec.id], UpdateData(rec.title, rec.date, rec.at)))
                /\ reqs' = [reqs EXCEPT ![r].pc = "put_get"]
           ELSE /\ Respond(r, [rec EXCEPT !.log = @ \cup {"not_found"}],
                           Response(500, FALSE, <<>>))
                /\ UNCHANGED docs
  /\ UNCHANGED <<blobs, now, nextId>>

\* doc(id).get(); res.json({ success: true, data: { id: doc.id, ...doc.data() } })
PutGet(r) ==
  /\ reqs[r].pc = "put_get"
  /\ Respond(r, reqs[r],
       Response(200, TRUE, <<[id |-> reqs[r].id, doc |-> DocGet(reqs[r].id)]>>))
  /\ UNCHANGED <<docs, blobs, now, nextId>>

----------------------------------------------------------------------------
\* DELETE /:id

DeleteStart(r) ==
  /\ CanStart(r)
  /\ \E id \in Ids :
       reqs' = [reqs EXCEPT ![r] =
         [IdleReq EXCEPT !.kind = "delete", !.id = id, !.pc = "del_get"]]
  /\ now' = now + 1
  /\ UNCHANGED <<docs, blobs, nextId>>

\* doc(id).get(); if (!doc.exists) 404; mediaData = doc.data()
DeleteGet(r) ==
  /\ reqs[r].pc = "del_get"
  /\ LET rec == reqs[r]
         doc == DocGet(rec.id)
     IN  IF doc = <<>> THEN Respond(r, rec, Response(404, FALSE, <<>>))
         ELSE reqs' = [reqs EXCEPT ![r] =
                [rec EXCEPT !.snap = doc, !.pc = "del_primary"]]
  /\ UNCHANGED <<docs, blobs, now, nextId>>

\* bucket.file(path).delete() resolves only for an object that is there
BlobDelete(key) == [k \in DOMAIN blobs \ {key} |-> blobs[k]]

\* mediaData.thumbnail && mediaData.thumbnail !== mediaData.url
HasOwnThumbnail(mediaData) ==
  mediaData.thumbnail # <<>> /\ mediaData.thumbnail # mediaData.url

\* Mutant: no catch around the blob deletions, their failure reaches the
\* handler's outer catch.
StorageCatch_Abort(r, rec) ==
  /\ Respond(r, [rec EXCEPT !.log = @ \cup {"storage_error"}], Response(500, FALSE, <<>>))
  /\ UNCHANGED <<docs, blobs>>

\* catch (storageError) { console.log('Storage deletion error (continuing)') }
StorageCatch(r, rec) ==
  /\ reqs' = [reqs EXCEPT ![r] =
       [rec EXCEPT !.log = @ \cup {"storage_error"}, !.pc = "del_doc"]]
  /\ UNCHANGED <<docs, blobs>>

\* await bucket.file(`media/${fileName}`).delete(), then the thumbnail test
DeletePrimary(r) ==
  /\ reqs[r].pc = "del_primary"
  /\ LET rec == [reqs[r] EXCEPT !.log = @ \cup {"primary_attempted"}]
         key == MediaPath(UrlFileName(rec.snap[1].url))
     IN  \E ok \in BOOLEAN :
           IF ok /\ key \in DOMAIN blobs
             THEN /\ blobs' = BlobDelete(key)
                  /\ reqs' = [reqs EXCEPT ![r] =
                       [rec EXCEPT !.pc = IF HasOwnThumbnail(rec.snap[1])
                                            THEN "del_thumb" ELSE "del_doc"]]
                  /\ UNCHANGED docs
             ELSE StorageCatch(r, rec)
  /\ UNCHANGED <<now, nextId>>

\* await bucket.file(`thumbnails/${thumbnailName}`).delete()
DeleteThumb(r) ==
  /\ reqs[r].pc = "del_thumb"
  /\ LET rec == [reqs[r] EXCEPT !.log = @ \cup {"thumbnail_attempted"}]
         key == ThumbnailPath(UrlFileName(rec.snap[1].thumbnail))
     IN  \E ok \in BOOLEAN :
           IF ok /\ key \in DOMAIN blobs
             THEN /\ blobs' = BlobDelete(key)
                  /\ reqs' = [reqs EXCEPT ![r] = [rec EXCEPT !.pc = "del_doc"]]
                  /\ UNCHANGED docs
             ELSE StorageCatch(r, rec)
  /\ UNCHANGED <<now, nextId>>

\* doc(id).delete(); res.json({ success: true })
DeleteDoc(r) ==
  /\ reqs[r].pc = "del_doc"
  /\ docs' = DocDelete(reqs[r].id)
  /\ Respond(r, reqs[r], Response(200, TRUE, <<>>))
  /\ UNCHANGED <<blobs, now, nextId>>

----------------------------------------------------------------------------
\* POST /:id/like

Max(a, b) == IF a >= b THEN a ELSE b

\* Mutant: unlike without Math.max.
NewLikes_NoClamp(action, currentLikes) ==
  IF action = "like" THEN currentLikes + 1 ELSE currentLikes - 1

\* Mutant: the action is not looked at.
NewLikes_AlwaysIncrement(action, currentLikes) == currentLikes + 1

\* action === 'like' ? currentLikes + 1 : Math.max(0, currentLikes - 1)
NewLikes(action, currentLikes) ==
  IF action = "like" THEN currentLikes + 1 ELSE Max(0, currentLikes - 1)

LikeStart(r) ==
  /\ CanStart(r)
  /\ \E id \in Ids, action \in LikeActions :
       reqs' = [reqs EXCEPT ![r] =
         [IdleReq EXCEPT !.kind = "like", !.id = id, !.action = action,
                         !.pc = "like_get"]]
  /\ now' = now + 1
  /\ UNCHANGED <<docs, blobs, nextId>>

\* doc(id).get(); if (!doc.exists) 404; currentLikes, newLikes and the
\* update's { likes, updatedAt: new Date() }.  likes is always a number,
\* so `doc.data().likes || 0` is the stored count.
LikeGet(r) ==
  /\ reqs[r].pc = "like_get"
  /\ LET rec == reqs[r]
         doc == DocGet(rec.id)
     IN  IF doc = <<>> THEN Respond(r, rec, Response(404, FALSE, <<>>))
         ELSE reqs' = [reqs EXCEPT ![r] =
                [rec EXCEPT !.snap = doc,
                            !.newLikes = NewLikes(rec.action, doc[1].likes),
                            !.at = now,
                            !.pc = "like_update"]]
  /\ UNCHANGED <<docs, blobs, now, nextId>>

\* Mutant: the count is computed from the stored document at the time of
\* the write (an atomic increment).
LikeFields_Atomic(rec) ==
  [likes |-> NewLikes(rec.action, docs[rec.id].likes), updatedAt |-> rec.at]

\* The fields the like handler writes: the count computed from its snapshot.
LikeFields(rec) == [likes |-> rec.newLikes, updatedAt |-> rec.at]

\* Mutant: set(..., { merge: true }) in place of update(): the write creates
\* the document when it is missing.
LikeUpdate_Upsert(r) ==
  /\ reqs[r].pc = "like_update"
  /\ LET rec == reqs[r]
         base == IF Exists(rec.id) THEN docs[rec.id] ELSE rec.snap[1]
     IN  /\ docs' = DocSet(rec.id, Merge(base, [likes |-> rec.newLikes, updatedAt |-> rec.at]))
         /\ Respond(r, rec, Response(200, TRUE, <<[likes |-> rec.newLikes]>>))
  /\ UNCHANGED <<blobs, now, nextId>>

\* update({ likes: newLikes, updatedAt }); res.json({ data: { likes: newLikes } })
LikeUpdate(r) ==
  /\ reqs[r].pc = "like_update"
  /\ LET rec == reqs[r]
     IN  IF Exists(rec.id)
           THEN /\ docs' = DocSet(rec.id, Merge(docs[rec.id], LikeFields(rec)))
                /\ Respond(r, rec, Response(200, TRUE, <<[likes |-> rec.newLikes]>>))
           ELSE /\ Respond(r, [rec EXCEPT !.log = @ \cup {"not_found"}],
                           Response(500, FALSE, <<>>))
                /\ UNCHANGED docs
  /\ UNCHANGED <<blobs, now, nextId>>

----------------------------------------------------------------------------
\* Specifications

Starts(r) ==
  \/ UploadStart(r)
  \/ GetStart(r)
  \/ PutStart(r)
  \/ DeleteStart(r)
  \/ LikeStart(r)

Steps(r) ==
  \/ UploadResize(r)
  \/ UploadWrite(r)
  \/ UploadSign(r)
  \/ UploadThumb(r)
  \/ UploadThumbWrite(r)
  \/ UploadThumbSign(r)
  \/ UploadSet(r)
  \/ GetRead(r)
  \/ PutUpdate(r)
  \/ PutGet(r)
  \/ DeleteGet(r)
  \/ DeletePrimary(r)
  \/ DeleteThumb(r)
  \/ DeleteDoc(r)
  \/ LikeGet(r)
  \/ LikeUpdate(r)

\* Requests are handled concurrently: any request may arrive at any time and
\* the handlers' awaits interleave freely.
Next == \E r \in Slots : Starts(r) \/ Steps(r)

Spec == Init /\ [][Next]_vars

\* Requests are handled one after another: a request arrives only when every
\* earlier one has been answered.
SeqNext == \E r \in Slots : (Quiet /\ Starts(r)) \/ Steps(r)

SeqSpec == Init /\ [][SeqNext]_vars

----------------------------------------------------------------------------
\* Properties

Status(r) == reqs[r].resp[1].status
Success(r) == reqs[r].resp[1].success
Data(r) == reqs[r].resp[1].data[1]

\* C1: in every reachable state the likes of every stored media document is
\* an integer >= 0, whatever uploads, likes, unlikes, updates and deletes
\* have run and however they interleaved.
C1_LikesNonNegative ==
  \A id \in DOMAIN docs : docs[id].likes \in Nat

\* Two unlike requests have been answered for an item whose count is 0, and
\* the count is still 0.
C1_Witness ==
  \E r, q \in Slots :
    /\ r # q
    /\ \A x \in {r, q} :
         /\ reqs[x].kind = "like" /\ reqs[x].action = "unlike" /\ Done(x)
         /\ reqs[x].id = 1 /\ Status(x) = 200 /\ Data(x).likes = 0
    /\ Exists(1) /\ docs[1].likes = 0

\* The count after the answered like/unlike requests 1..k on document id,
\* from the count 0 of a new document.
RECURSIVE LikesAfter(_, _)
LikesAfter(id, k) ==
  IF k = 0 THEN 0
  ELSE LET n == LikesAfter(id, k - 1)
       IN  IF reqs[k].kind = "like" /\ reqs[k].id = id /\ Done(k) /\ Status(k) = 200
             THEN IF reqs[k].action = "like" THEN n + 1
                  ELSE IF n > 0 THEN n - 1 ELSE 0
           ELSE n

\* C2: when requests run one after another, every answered like stores
\* previous+1 and every answered unlike max(0, previous-1), the likes in the
\* response is the stored count, and so the count of a document is the fold
\* of the answered like/unlike requests over its initial count 0.
C2_SequentialFold ==
  /\ \A id \in DOMAIN docs : docs[id].likes = LikesAfter(id, MaxReq)
  /\ \A r \in Slots :
       reqs[r].kind = "like" /\ Done(r) /\ Status(r) = 200
         => Data(r).likes = LikesAfter(reqs[r].id, r)

\* like, like, unlike on document 1, answered 1, 2, 1; the count is 1.
C2_Witness ==
  /\ \A r \in 1..3 : reqs[r].kind = "like" /\ reqs[r].id = 1 /\ Done(r) /\ Status(r) = 200
  /\ reqs[1].action = "like" /\ reqs[2].action = "like" /\ reqs[3].action = "unlike"
  /\ Data(1).likes = 1 /\ Data(2).likes = 2 /\ Data(3).likes = 1
  /\ Exists(1) /\ docs[1].likes = 1

\* C3 (as claimed): an upload whose file is neither image/* nor video/* is
\* answered 400 and creates no document and no blob.
C3_RejectedUploadIs400 ==
  [][\A r \in Slots :
       /\ reqs[r].kind = "idle"
       /\ reqs'[r].kind = "upload"
       /\ reqs'[r].file # <<>>
       /\ reqs'[r].file[1].mimetype[1] \notin {"image", "video"}
       => /\ reqs'[r].pc = "done"
          /\ reqs'[r].resp[1].status = 400
          /\ docs' = docs
          /\ blobs' = blobs]_vars

\* C4 (as claimed): a PUT for an id without a document is answered 404 and
\* leaves the collection as it is.
C4_PutMissingIs404 ==
  [][\A r \in Slots :
       /\ reqs[r].pc = "put_update"
       /\ reqs'[r].pc # "put_update"
       /\ reqs[r].id \notin DOMAIN docs
       => /\ reqs'[r].pc = "done"
          /\ reqs'[r].resp[1].status = 404
          /\ docs' = docs]_vars

\* C5: every GET of an id that arrives after a DELETE of that id has
\* answered with success is answered 404 with success false.
C5_GetAfterDelete ==
  \A r \in Slots :
    reqs[r].kind = "get" /\ Done(r) /\ reqs[r].afterDelete
      => Status(r) = 404 /\ Success(r) = FALSE

\* A like that had read the document before it was deleted has run into the
\* missing document (500), and a later GET has been answered 404.
C5_Witness ==
  \E l, d, g \in Slots :
    /\ reqs[l].kind = "like" /\ reqs[l].id = 1 /\ Done(l)
    /\ "not_found" \in reqs[l].log /\ Status(l) = 500
    /\ reqs[d].kind = "delete" /\ reqs[d].id = 1 /\ Done(d) /\ Status(d) = 200
    /\ l < d
    /\ reqs[g].kind = "get" /\ reqs[g].id = 1 /\ Done(g) /\ reqs[g].afterDelete
    /\ Status(g) = 404

ThumbnailFailures ==
  {"thumbnail_transform_failed", "thumbnail_write_failed", "thumbnail_sign_failed"}

\* C6: a photo upload whose thumbnail stage failed (and whose primary write
\* and metadata write succeeded) is answered 201 with success, and the
\* returned and the stored thumbnail are the primary url; a video upload's
\* thumbnail is always its url.
C6_ThumbnailFallback ==
  \A r \in Slots :
    /\ reqs[r].kind = "upload" /\ Done(r)
       /\ reqs[r].log \cap ThumbnailFailures # {} /\ "set_failed" \notin reqs[r].log
         => /\ Status(r) = 201 /\ Success(r)
            /\ Data(r).url # <<>> /\ Data(r).thumbnail = Data(r).url
            /\ reqs[r].id \in DOMAIN docs =>
                 /\ docs[reqs[r].id].url = Data(r).url
                 /\ docs[reqs[r].id].thumbnail = Data(r).url
    /\ reqs[r].kind = "upload" /\ Done(r) /\ Status(r) = 201
       /\ reqs[r].file[1].mimetype[1] = "video"
         => /\ Data(r).thumbnail = Data(r).url
            /\ reqs[r].id \in DOMAIN docs =>
                 docs[reqs[r].id].thumbnail = docs[reqs[r].id].url

\* A photo upload whose thumbnail was written but could not be signed has
\* been answered 201, and its document is stored with thumbnail = url.
C6_Witness ==
  \E r \in Slots :
    /\ reqs[r].kind = "upload" /\ Done(r) /\ Status(r) = 201
    /\ "thumbnail_sign_failed" \in reqs[r].log
    /\ reqs[r].id \in DOMAIN docs
    /\ docs[reqs[r].id].type = "photo"
    /\ docs[reqs[r].id].thumbnail = docs[reqs[r].id].url

\* C7: a DELETE that found its document answers with success and the
\* document is gone, whatever the blob deletions did.
C7_DeleteSwallowsBlobFailure ==
  \A r \in Slots :
    reqs[r].kind = "delete" /\ Done(r) /\ "primary_attempted" \in reqs[r].log
      => /\ Status(r) = 200 /\ Success(r)
         /\ reqs[r].id \notin DOMAIN docs

\* A DELETE whose blob deletion failed has answered 200; the blob is still
\* in the bucket and the document is gone.
C7_Witness ==
  \E r \in Slots :
    /\ reqs[r].kind = "delete" /\ Done(r) /\ reqs[r].id = 1
    /\ "storage_error" \in reqs[r].log
    /\ Status(r) = 200
    /\ MediaPath(FileName(1, PhotoFile)) \in DOMAIN blobs
    /\ ~Exists(1)

\* C8: the update of a PUT that supplies only title replaces title and
\* updatedAt of that document and nothing else: its other fields, the other
\* documents and the bucket stay; likewise for a PUT that supplies only date.
C8_PartialUpdateFrame ==
  [][\A r \in Slots :
       reqs[r].pc = "put_update" /\ reqs'[r].pc = "put_get"
       => LET id == reqs[r].id
          IN  /\ DOMAIN docs' = DOMAIN docs
              /\ \A x \in DOMAIN docs : x # id => docs'[x] = docs[x]
              /\ blobs' = blobs
              /\ reqs[r].title # "" /\ reqs[r].date = <<>>
                   => docs'[id] = [docs[id] EXCEPT !.title = reqs[r].title,
                                                   !.updatedAt = reqs[r].at]
              /\ reqs[r].title = "" /\ reqs[r].date # <<>>
                   => docs'[id] = [docs[id] EXCEPT !.date = reqs[r].date,
                                                   !.updatedAt = reqs[r].at]]_vars

\* A title-only PUT on document 1 has been applied: the title is the new
\* one, updatedAt is the request's time, the date is the one of the upload.
C8_Witness ==
  \E r \in Slots :
    /\ reqs[r].kind = "put" /\ reqs[r].pc = "put_get" /\ reqs[r].id = 1
    /\ reqs[r].title = "t2" /\ reqs[r].date = <<>> /\ reqs[r].at > 0
    /\ Exists(1)
    /\ docs[1].title = "t2" /\ docs[1].date = <<"d1">>
    /\ docs[1].updatedAt = reqs[r].at /\ docs[1].createdAt = 0

\* C9: the like handler writes the count it computed from its own snapshot,
\* whatever the stored count is when the write lands: nothing makes the
\* read and the write one step.
C9_WriteFromSnapshot ==
  [][\A r \in Slots :
       /\ reqs[r].pc = "like_update" /\ reqs'[r].pc = "done"
       /\ reqs'[r].resp[1].status = 200
       => docs'[reqs[r].id].likes =
            IF reqs[r].action = "like" THEN reqs[r].snap[1].likes + 1
            ELSE IF reqs[r].snap[1].likes > 0 THEN reqs[r].snap[1].likes - 1 ELSE 0]_vars

\* The lost update: the only two requests that ever arrived are two likes of
\* document 1 (count 0), both were answered with success, the count is 1.
C9_Witness ==
  /\ \A r \in 1..2 :
       /\ reqs[r].kind = "like" /\ reqs[r].action = "like" /\ reqs[r].id = 1
       /\ Done(r) /\ Status(r) = 200 /\ Data(r).likes = 1
  /\ \A r \in Slots : r > 2 => reqs[r].kind = "idle"
  /\ Exists(1) /\ docs[1].likes = 1

\* C10 (as claimed): when the document of a DELETE has a thumbnail of its
\* own, both blob deletions have been attempted by the time the handler
\* deletes the document.
C10_BothBlobsAttempted ==
  \A r \in Slots :
    /\ reqs[r].kind = "delete" /\ reqs[r].pc = "del_doc"
    /\ reqs[r].snap[1].thumbnail # <<>>
    /\ reqs[r].snap[1].thumbnail # reqs[r].snap[1].url
    => {"primary_attempted", "thumbnail_attempted"} \subseteq reqs[r].log

=============================================================================
